---- MODULE Spec2Model ----
(***************************************************************************)
(* FilmHub-API: account lockout state machine and JWT session gate.        *)
(*                                                                         *)
(* Modelled from src/src/handlers/index.ts (createAccount, loginUser,      *)
(* getCurrentUser, updateUser, deleteUserAccount), src/src/models/User.ts  *)
(* (userSchema, isLocked, incLoginAttempts, resetLoginAttempts),           *)
(* src/src/utils/auths.ts (hashPassword, checkPassword, generateToken,     *)
(* verifyToken) and src/src/middleware/auth.ts (authenticate).             *)
(*                                                                         *)
(* Time: Date.now() is the variable now, in clock ticks (the code's        *)
(* milliseconds, scaled).  jsonwebtoken works in whole seconds,            *)
(* Math.floor(Date.now() / 1000): Sec(t).  The policy durations are scaled *)
(* to a few ticks so that expiry of locks and of tokens is reached.        *)
(***************************************************************************)
EXTENDS Integers, FiniteSets, Sequences, TLC

\* ---------------------------------------------------------------- bounds
MaxUsers == 2
MaxTime == 2
MaxAttempts == 6
MaxTokens == 1
MaxInflight == 2
MaxReviews == 1

\* ------------------------------------------------- program constants
\* 1000 ms per JWT second, scaled to 2 ticks
MS_PER_SEC == 2
\* 15 * 60 * 1000 ms lock duration, scaled to 1 tick
LOCK_TIME == 1
\* expiresIn: '2h', scaled to 1 JWT second (2 ticks)
TOKEN_LIFETIME == 1
\* newAttempts >= 5
LOCK_THRESHOLD == 5

\* ------------------------------------------------------------ value sets
Ids == 1..MaxUsers
Emails == {"a@x.com", "b@x.com"}
Passwords == {"Abcdefg1", "Zyxwvut9"}
Secrets == {"k1", "k2"}
NoSecret == "undefined"
EvilSecret == "forged"
NoUser == [exists |-> FALSE]
NoDate == -1
NoId == 0
Absent == "absent"
AbsentNum == -2
NoToken == [kind |-> "none"]
Garbage == [kind |-> "garbage"]
Thrown == [kind |-> "thrown"]
NoReview == [user |-> NoId, rating |-> 0]
ReviewIds == 1..MaxReviews
NoRequest == [op |-> "none"]
Slots == 1..MaxInflight

VARIABLES
  users,       \* the User collection: _id -> document, or NoUser
  nextId,      \* next fresh ObjectId
  now,         \* Date.now()
  JWT_SECRET,  \* process.env.JWT_SECRET
  tokens,      \* tokens handed out by loginUser and still held by clients
  streak,      \* per account: wrong-password logins in a row since it was
               \* Open with no failures (-1: no such run in progress)
  last,        \* the request handled last: its inputs and its response
  inflight,    \* requests suspended at an await between a read and a write
  reviews,     \* the Review collection: _id -> document, or NoReview
  favorites,   \* the Favorite collection: documents {user, movieId}
  outbox       \* accounts a reset mail has been handed to the transport for

vars == <<users, nextId, now, JWT_SECRET, tokens, streak, last, inflight,
          reviews, favorites, outbox>>

\* ------------------------------------------------------------ utilities
Sec(t) == t \div MS_PER_SEC

\* bcrypt.hash(password, salt): the digest embeds the salt
hashPassword(password, salt) ==
  [hashed |-> TRUE, text |-> password, salt |-> salt]

\* a comparison that accepts any password once a digest is stored
checkPassword_AnyDigest(enteredPassword, storedHash) == storedHash.hashed

\* bcrypt.compare: false for anything that is not a digest of the password
checkPassword(enteredPassword, storedHash) ==
  storedHash.hashed /\ storedHash.text = enteredPassword

\* jwt.sign(payload, secret, {expiresIn: '2h'}); throws without a secret
generateToken(id, secret, t) ==
  IF secret = NoSecret THEN Thrown
  ELSE [kind |-> "jwt", id |-> id, iat |-> Sec(t),
        exp |-> Sec(t) + TOKEN_LIFETIME, key |-> secret]

\* verifyToken accepting a token at the very second of its expiry
verifyToken_Late(token, secret, t) ==
  IF secret = NoSecret THEN [ok |-> FALSE, name |-> "Error", id |-> NoId]
  ELSE IF token.kind # "jwt"
    THEN [ok |-> FALSE, name |-> "JsonWebTokenError", id |-> NoId]
  ELSE IF token.key # secret
    THEN [ok |-> FALSE, name |-> "JsonWebTokenError", id |-> NoId]
  ELSE IF Sec(t) > token.exp
    THEN [ok |-> FALSE, name |-> "TokenExpiredError", id |-> NoId]
  ELSE [ok |-> TRUE, name |-> "", id |-> token.id]

\* verifyToken checking the expiry before the signature
verifyToken_ExpiryFirst(token, secret, t) ==
  IF secret = NoSecret THEN [ok |-> FALSE, name |-> "Error", id |-> NoId]
  ELSE IF token.kind # "jwt"
    THEN [ok |-> FALSE, name |-> "JsonWebTokenError", id |-> NoId]
  ELSE IF Sec(t) >= token.exp
    THEN [ok |-> FALSE, name |-> "TokenExpiredError", id |-> NoId]
  ELSE IF token.key # secret
    THEN [ok |-> FALSE, name |-> "JsonWebTokenError", id |-> NoId]
  ELSE [ok |-> TRUE, name |-> "", id |-> token.id]

\* verifyToken decoding the payload without checking the signature
verifyToken_NoSignature(token, secret, t) ==
  IF secret = NoSecret THEN [ok |-> FALSE, name |-> "Error", id |-> NoId]
  ELSE IF token.kind # "jwt"
    THEN [ok |-> FALSE, name |-> "JsonWebTokenError", id |-> NoId]
  ELSE IF Sec(t) >= token.exp
    THEN [ok |-> FALSE, name |-> "TokenExpiredError", id |-> NoId]
  ELSE [ok |-> TRUE, name |-> "", id |-> token.id]

\* jwt.verify(token, secret): structure, then signature, then expiry
verifyToken(token, secret, t) ==
  IF secret = NoSecret THEN [ok |-> FALSE, name |-> "Error", id |-> NoId]
  ELSE IF token.kind # "jwt"
    THEN [ok |-> FALSE, name |-> "JsonWebTokenError", id |-> NoId]
  ELSE IF token.key # secret
    THEN [ok |-> FALSE, name |-> "JsonWebTokenError", id |-> NoId]
  ELSE IF Sec(t) >= token.exp
    THEN [ok |-> FALSE, name |-> "TokenExpiredError", id |-> NoId]
  ELSE [ok |-> TRUE, name |-> "", id |-> token.id]

\* ------------------------------------------------------------ User model
ExistingIds == {i \in Ids : users[i] # NoUser}

\* the email path's setter left out: values are stored and queried as sent
toLowerCase_AsSent(email) == email

\* userSchema.email: lowercase: true, the setter mongoose runs on assigned
\* values and on query filters
toLowerCase(email) == IF email = "A@x.com" THEN "a@x.com" ELSE email

\* User.findOne({ email })
findOne(email) == {i \in ExistingIds : users[i].email = toLowerCase(email)}

isLocked(u, t) == u.lockUntil # NoDate /\ u.lockUntil > t

\* incLoginAttempts locking one failure late (> instead of >=)
incLoginAttempts_LateLock(u, t) ==
  IF u.lockUntil # NoDate /\ u.lockUntil < t
    THEN [u EXCEPT !.loginAttempts = 0, !.lockUntil = NoDate]
  ELSE IF u.loginAttempts + 1 > LOCK_THRESHOLD
    THEN [u EXCEPT !.loginAttempts = u.loginAttempts + 1,
                   !.lockUntil = t + LOCK_TIME]
  ELSE [u EXCEPT !.loginAttempts = u.loginAttempts + 1]

\* incLoginAttempts leaving the elapsed lockUntil in place
incLoginAttempts_KeepLock(u, t) ==
  IF u.lockUntil # NoDate /\ u.lockUntil < t
    THEN [u EXCEPT !.loginAttempts = 0]
  ELSE IF u.loginAttempts + 1 >= LOCK_THRESHOLD
    THEN [u EXCEPT !.loginAttempts = u.loginAttempts + 1,
                   !.lockUntil = t + LOCK_TIME]
  ELSE [u EXCEPT !.loginAttempts = u.loginAttempts + 1]

\* If the lock has expired the attempts are reset, else the counter is
\* incremented and the account locked from LOCK_THRESHOLD failures on
incLoginAttempts(u, t) ==
  IF u.lockUntil # NoDate /\ u.lockUntil < t
    THEN [u EXCEPT !.loginAttempts = 0, !.lockUntil = NoDate]
  ELSE IF u.loginAttempts + 1 >= LOCK_THRESHOLD
    THEN [u EXCEPT !.loginAttempts = u.loginAttempts + 1,
                   !.lockUntil = t + LOCK_TIME]
  ELSE [u EXCEPT !.loginAttempts = u.loginAttempts + 1]

resetLoginAttempts(u) ==
  [u EXCEPT !.loginAttempts = 0, !.lockUntil = NoDate]

\* ------------------------------------------------------------ responses
Resp(status, error) == [status |-> status, error |-> error]

\* the user object of a response body that carries none
NoFields == [id |-> NoId]

NoLast ==
  [op |-> "none", case |-> "",
   header |-> [kind |-> "none", token |-> NoToken], resp |-> Resp(0, ""), token |-> NoToken,
   ran |-> FALSE, reqUser |-> NoId, pre |-> NoUser, password |-> Absent,
   email |-> Absent, bodyUser |-> NoFields, path |-> <<>>,
   review |-> NoId, rating |-> AbsentNum]

\* streak bookkeeping after an operation other than a failed login
Fresh(u) == IF u.loginAttempts = 0 /\ u.lockUntil = NoDate THEN 0 ELSE -1

Init ==
  /\ users = [i \in Ids |-> NoUser]
  /\ nextId = 1
  /\ now = 0
  /\ JWT_SECRET \in Secrets
  /\ tokens = {}
  /\ streak = [i \in Ids |-> -1]
  /\ last = NoLast
  /\ inflight = [s \in Slots |-> NoRequest]
  /\ reviews = [r \in ReviewIds |-> NoReview]
  /\ favorites = {}
  /\ outbox = {}

\* no request is being handled
Idle == last = NoLast

\* the response of the request handled last has been sent
Respond ==
  /\ ~Idle
  /\ last' = NoLast
  /\ UNCHANGED <<users, nextId, now, JWT_SECRET, tokens, streak>>

\* Date.now() advances
Tick ==
  /\ Idle
  /\ now < MaxTime
  /\ now' = now + 1
  /\ UNCHANGED <<users, nextId, JWT_SECRET, tokens, streak, last>>

\* the process is restarted with another JWT_SECRET in its environment
Restart(secret) ==
  /\ Idle
  /\ secret # JWT_SECRET
  /\ JWT_SECRET' = secret
  /\ UNCHANGED <<users, nextId, now, tokens, streak, last>>

\* a client discards a token it holds (logout is client-side only)
DropToken(tk) ==
  /\ Idle
  /\ tk \in tokens
  /\ tokens' = tokens \ {tk}
  /\ UNCHANGED <<users, nextId, now, JWT_SECRET, streak, last>>

\* request bodies: fields beyond the validated ones reach the handler as sent
BodyAttempts == {AbsentNum, 4}
BodyDates == {AbsentNum, 1}
RegisterEmails == {"a@x.com"}
RegisterPasswords == {"Abcdefg1"}

\* POST /api/users/register
createAccount(email, password, salt, attempts, lockUntil) ==
  Idle /\
  IF findOne(email) # {}
  THEN /\ last' = [NoLast EXCEPT !.op = "createAccount",
                     !.resp = Resp(409, "A user with that email is already registered")]
       /\ UNCHANGED <<users, nextId, now, JWT_SECRET, tokens, streak>>
  ELSE /\ nextId <= MaxUsers
       /\ LET u == [exists |-> TRUE, email |-> toLowerCase(email),
                    password |-> hashPassword(password, salt),
                    loginAttempts |-> IF attempts = AbsentNum THEN 0 ELSE attempts,
                    lockUntil |-> IF lockUntil = AbsentNum THEN NoDate ELSE lockUntil]
          IN /\ users' = [users EXCEPT ![nextId] = u]
             /\ streak' = [streak EXCEPT ![nextId] = Fresh(u)]
       /\ nextId' = nextId + 1
       /\ last' = [NoLast EXCEPT !.op = "createAccount",
                     !.resp = Resp(201, ""), !.reqUser = nextId,
                     !.bodyUser = [id |-> nextId, email |-> toLowerCase(email)]]
       /\ UNCHANGED <<now, JWT_SECRET, tokens>>

\* loginUser answering an unknown email with its own status and message
loginUnknown_NotFound ==
  [case |-> "unknown", id |-> NoId, after |-> NoUser, token |-> NoToken,
   resp |-> Resp(404, "User not found"), bodyUser |-> NoFields]

\* loginUser: if (!user)
loginUnknown ==
  [case |-> "unknown", id |-> NoId, after |-> NoUser, token |-> NoToken,
   resp |-> Resp(401, "Invalid email or password"), bodyUser |-> NoFields]

\* the login response carrying the document as loaded
loginBody_WholeUser(id, user) ==
  [id |-> id, email |-> user.email, password |-> user.password,
   loginAttempts |-> user.loginAttempts, lockUntil |-> user.lockUntil]

\* user: { id, firstName, lastName, email } of the login response
loginBody(id, user) == [id |-> id, email |-> user.email]

\* POST /api/auth/login: what loginUser answers and writes for a request
loginResult(email, password) ==
  LET found == findOne(email) IN
  IF found = {}
  THEN loginUnknown
  ELSE
    LET id == CHOOSE i \in found : TRUE
        user == users[id]
    IN
    IF ~checkPassword(password, user.password)
    THEN [case |-> "wrongpw", id |-> id, after |-> incLoginAttempts(user, now),
          token |-> NoToken, resp |-> Resp(401, "Invalid email or password"),
          bodyUser |-> NoFields]
    ELSE
      LET after == IF user.loginAttempts > 0
                   THEN resetLoginAttempts(user) ELSE user
          token == generateToken(id, JWT_SECRET, now)
      IN IF token = Thrown
         THEN [case |-> "error", id |-> id, after |-> after, token |-> NoToken,
               resp |-> Resp(500, "Try again later"), bodyUser |-> NoFields]
         ELSE [case |-> "ok", id |-> id, after |-> after, token |-> token,
               resp |-> Resp(200, ""), bodyUser |-> loginBody(id, after)]

loginUser(email, password) ==
  LET r == loginResult(email, password) IN
  /\ Idle
  /\ last' = [NoLast EXCEPT !.op = "loginUser", !.case = r.case,
                !.reqUser = r.id, !.resp = r.resp, !.token = r.token,
                !.bodyUser = r.bodyUser,
                !.pre = IF r.id = NoId THEN NoUser ELSE users[r.id]]
  /\ IF r.id = NoId
     THEN UNCHANGED <<users, streak>>
     ELSE /\ r.case = "wrongpw" => users[r.id].loginAttempts < MaxAttempts
          /\ users' = [users EXCEPT ![r.id] = r.after]
          /\ streak' = [streak EXCEPT ![r.id] =
                          IF r.case = "wrongpw"
                             /\ streak[r.id] \in 0..(LOCK_THRESHOLD - 1)
                          THEN streak[r.id] + 1 ELSE Fresh(r.after)]
  /\ IF r.case = "ok"
     THEN \E keep \in SUBSET tokens :
            /\ Cardinality(keep) < MaxTokens
            /\ Cardinality(keep) >= Cardinality(tokens) - 1
            /\ tokens' = keep \cup {r.token}
     ELSE UNCHANGED tokens
  /\ UNCHANGED <<nextId, now, JWT_SECRET>>

\* ------------------------------------------------- middleware/auth.ts
\* the Authorization headers a caller can send: none, a scheme without a
\* token, or "Bearer <token>" with a token it holds, forged or garbage
ForgedTokens ==
  {[kind |-> "jwt", id |-> 1, iat |-> 0, exp |-> TOKEN_LIFETIME,
    key |-> EvilSecret]}

Headers ==
  {[kind |-> "none", token |-> NoToken], [kind |-> "noToken", token |-> NoToken]}
  \cup {[kind |-> "bearer", token |-> tk] :
          tk \in tokens \cup ForgedTokens \cup {Garbage}}

AuthResult(next, responded, resp, user) ==
  [next |-> next, responded |-> responded, resp |-> resp, user |-> user]

\* authenticate answering a token of a missing account like a bad token
authenticate_Missing401(header) ==
  IF header.kind = "none"
    THEN AuthResult(FALSE, TRUE, Resp(401, "Unauthorized"), NoId)
  ELSE IF header.kind = "noToken"
    THEN AuthResult(FALSE, TRUE, Resp(401, "Unauthorized"), NoId)
  ELSE
    LET result == verifyToken(header.token, JWT_SECRET, now) IN
    IF result.ok
    THEN IF result.id # NoId
         THEN IF users[result.id] = NoUser
              THEN AuthResult(FALSE, TRUE, Resp(401, "Invalid token"), NoId)
              ELSE AuthResult(TRUE, FALSE, Resp(0, ""), result.id)
         ELSE AuthResult(FALSE, FALSE, Resp(0, ""), NoId)
    ELSE IF result.name = "TokenExpiredError"
         THEN AuthResult(FALSE, TRUE, Resp(401, "Token expired"), NoId)
         ELSE AuthResult(FALSE, TRUE, Resp(401, "Invalid token"), NoId)

\* authenticate trusting the token's id without looking the account up
authenticate_NoLookup(header) ==
  IF header.kind = "none"
    THEN AuthResult(FALSE, TRUE, Resp(401, "Unauthorized"), NoId)
  ELSE IF header.kind = "noToken"
    THEN AuthResult(FALSE, TRUE, Resp(401, "Unauthorized"), NoId)
  ELSE
    LET result == verifyToken(header.token, JWT_SECRET, now) IN
    IF result.ok
    THEN IF result.id # NoId
         THEN AuthResult(TRUE, FALSE, Resp(0, ""), result.id)
         ELSE AuthResult(FALSE, FALSE, Resp(0, ""), NoId)
    ELSE IF result.name = "TokenExpiredError"
         THEN AuthResult(FALSE, TRUE, Resp(401, "Token expired"), NoId)
         ELSE AuthResult(FALSE, TRUE, Resp(401, "Invalid token"), NoId)

\* authenticate turning away the token of an account that is locked
authenticate_LockAware(header) ==
  IF header.kind = "none"
    THEN AuthResult(FALSE, TRUE, Resp(401, "Unauthorized"), NoId)
  ELSE IF header.kind = "noToken"
    THEN AuthResult(FALSE, TRUE, Resp(401, "Unauthorized"), NoId)
  ELSE
    LET result == verifyToken(header.token, JWT_SECRET, now) IN
    IF result.ok
    THEN IF result.id # NoId
         THEN IF users[result.id] = NoUser
              THEN AuthResult(FALSE, TRUE, Resp(404, "User does not exist"), NoId)
              ELSE IF isLocked(users[result.id], now)
              THEN AuthResult(FALSE, TRUE, Resp(401, "Unauthorized"), NoId)
              ELSE AuthResult(TRUE, FALSE, Resp(0, ""), result.id)
         ELSE AuthResult(FALSE, FALSE, Resp(0, ""), NoId)
    ELSE IF result.name = "TokenExpiredError"
         THEN AuthResult(FALSE, TRUE, Resp(401, "Token expired"), NoId)
         ELSE AuthResult(FALSE, TRUE, Resp(401, "Invalid token"), NoId)

authenticate(header) ==
  IF header.kind = "none"
    THEN AuthResult(FALSE, TRUE, Resp(401, "Unauthorized"), NoId)
  ELSE IF header.kind = "noToken"
    THEN AuthResult(FALSE, TRUE, Resp(401, "Unauthorized"), NoId)
  ELSE
    LET result == verifyToken(header.token, JWT_SECRET, now) IN
    IF result.ok
    THEN IF result.id # NoId
         THEN IF users[result.id] = NoUser
              THEN AuthResult(FALSE, TRUE, Resp(404, "User does not exist"), NoId)
              ELSE AuthResult(TRUE, FALSE, Resp(0, ""), result.id)
         ELSE AuthResult(FALSE, FALSE, Resp(0, ""), NoId)
    ELSE IF result.name = "TokenExpiredError"
         THEN AuthResult(FALSE, TRUE, Resp(401, "Token expired"), NoId)
         ELSE AuthResult(FALSE, TRUE, Resp(401, "Invalid token"), NoId)

\* the middleware counting a rejected token as a failed attempt on the
\* account the token names
Rejected_CountsFailure(op, header, auth) ==
  /\ last' = [NoLast EXCEPT !.op = op, !.header = header, !.resp = auth.resp]
  /\ IF header.kind = "bearer" /\ header.token.kind = "jwt"
        /\ users[header.token.id] # NoUser
     THEN users' = [users EXCEPT ![header.token.id].loginAttempts =
                      IF @ < MaxAttempts THEN @ + 1 ELSE @]
     ELSE UNCHANGED users
  /\ UNCHANGED <<nextId, now, JWT_SECRET, tokens, streak>>

\* a request stopped by the middleware: the handler does not run
Rejected(op, header, auth) ==
  /\ last' = [NoLast EXCEPT !.op = op, !.header = header, !.resp = auth.resp]
  /\ UNCHANGED <<users, nextId, now, JWT_SECRET, tokens, streak>>

\* GET /api/auth/user
getCurrentUser(header) ==
  LET auth == authenticate(header) IN
  Idle /\
  IF ~auth.next THEN Rejected("getCurrentUser", header, auth)
  ELSE /\ last' = [NoLast EXCEPT !.op = "getCurrentUser", !.header = header,
                     !.ran = TRUE, !.reqUser = auth.user, !.resp = Resp(200, ""),
                     !.pre = users[auth.user],
                     !.bodyUser = [id |-> auth.user,
                                   email |-> users[auth.user].email]]
       /\ UNCHANGED <<users, nextId, now, JWT_SECRET, tokens, streak>>

\* Object.keys(updates).forEach: every non-empty key of the body is assigned
Assign(u, updates) ==
  [u EXCEPT
     !.email = IF updates.email # Absent THEN toLowerCase(updates.email) ELSE @,
     !.password = IF updates.password # Absent
                  THEN [hashed |-> FALSE, text |-> updates.password, salt |-> 0]
                  ELSE @,
     !.loginAttempts = IF updates.loginAttempts # AbsentNum
                       THEN updates.loginAttempts ELSE @,
     !.lockUntil = IF updates.lockUntil # AbsentNum
                   THEN updates.lockUntil ELSE @]

\* res.json({ ..., user }): the document with every stored path
userJSON(id, u) ==
  [id |-> id, email |-> u.email, password |-> u.password,
   loginAttempts |-> u.loginAttempts, lockUntil |-> u.lockUntil]

\* PUT /api/auth/user
updateUser(header, updates) ==
  LET auth == authenticate(header)
      base == [NoLast EXCEPT !.op = "updateUser", !.header = header,
                             !.ran = TRUE, !.reqUser = auth.user,
                             !.pre = users[auth.user]]
  IN
  Idle /\
  IF ~auth.next THEN Rejected("updateUser", header, auth)
  ELSE
    LET id == auth.user
        user == users[id]
    IN
    IF updates.email # Absent /\ updates.email # user.email
       /\ findOne(updates.email) # {}
    THEN /\ last' = [base EXCEPT !.resp = Resp(400, "Email already exists in database")]
         /\ UNCHANGED <<users, nextId, now, JWT_SECRET, tokens, streak>>
    ELSE /\ users' = [users EXCEPT ![id] = Assign(user, updates)]
         /\ streak' = [streak EXCEPT ![id] = Fresh(users'[id])]
         /\ last' = [base EXCEPT !.resp = Resp(200, ""),
                                 !.bodyUser = userJSON(id, users'[id])]
         /\ UNCHANGED <<nextId, now, JWT_SECRET, tokens>>

\* DELETE /api/auth/user
deleteUserAccount(header, password) ==
  LET auth == authenticate(header)
      base == [NoLast EXCEPT !.op = "deleteUserAccount", !.header = header,
                             !.ran = TRUE, !.reqUser = auth.user,
                             !.pre = users[auth.user], !.password = password]
  IN
  Idle /\
  IF ~auth.next THEN Rejected("deleteUserAccount", header, auth)
  ELSE IF password = Absent
  THEN /\ last' = [base EXCEPT !.resp = Resp(400, "Password is required")]
       /\ UNCHANGED <<users, nextId, now, JWT_SECRET, tokens, streak>>
  ELSE IF ~checkPassword(password, users[auth.user].password)
  THEN /\ last' = [base EXCEPT !.resp = Resp(401, "Incorrect password")]
       /\ UNCHANGED <<users, nextId, now, JWT_SECRET, tokens, streak>>
  ELSE /\ users' = [users EXCEPT ![auth.user] = NoUser]
       /\ streak' = [streak EXCEPT ![auth.user] = -1]
       /\ last' = [base EXCEPT !.resp = Resp(200, "")]
       /\ UNCHANGED <<nextId, now, JWT_SECRET, tokens>>

BodyEmails == {Absent}
BodyPasswords == {Absent}
UpdateBodies ==
  [email : BodyEmails, password : BodyPasswords,
   loginAttempts : BodyAttempts, lockUntil : BodyDates]

\* POST /reset-password?id=...
resetPassword(id, password, confirmPassword, salt) ==
  LET base == [NoLast EXCEPT !.op = "resetPassword", !.ran = TRUE] IN
  Idle /\
  IF password # confirmPassword
  THEN /\ last' = [base EXCEPT !.resp = Resp(400, "Passwords do not match")]
       /\ UNCHANGED <<users, nextId, now, JWT_SECRET, tokens, streak>>
  ELSE IF users[id] = NoUser
  THEN /\ last' = [base EXCEPT !.resp = Resp(404, "User not found")]
       /\ UNCHANGED <<users, nextId, now, JWT_SECRET, tokens, streak>>
  ELSE /\ users' = [users EXCEPT ![id].password = hashPassword(password, salt)]
       /\ last' = [base EXCEPT !.resp = Resp(200, ""), !.reqUser = id,
                               !.pre = users[id]]
       /\ UNCHANGED <<nextId, now, JWT_SECRET, tokens, streak>>

\* what the caller sees when the handler's promise rejects outside any
\* try/catch: no response at all, or the error middleware's answer
Unanswered == Resp(0, "")
RejectionOutcomes == {Unanswered, Resp(500, "Internal server error")}

\* POST /forgot-password; mail is whether transport.sendMail resolves.
\* The answers the caller can get: a rejection of sendMail is not caught.
forgotPasswordResult(email, mail) ==
  IF findOne(email) = {}
  THEN {[case |-> "unknown",
         resp |-> Resp(404, "There is no user with that email")]}
  ELSE IF mail = "rejected"
  THEN {[case |-> "mailFailed", resp |-> outcome] :
          outcome \in RejectionOutcomes}
  ELSE {[case |-> "mailSent", resp |-> Resp(200, "")]}

forgotPassword(email, mail) ==
  /\ Idle
  /\ \E r \in forgotPasswordResult(email, mail) :
       last' = [NoLast EXCEPT !.op = "forgotPassword", !.ran = TRUE,
                  !.email = email, !.case = r.case, !.resp = r.resp]
  /\ outbox' = IF findOne(email) # {} /\ mail = "resolved"
                THEN outbox \cup findOne(email) ELSE outbox
  /\ UNCHANGED <<users, nextId, now, JWT_SECRET, tokens, streak>>

\* ------------------------------------ handlers interleaved at an await
\* the store without the unique index on email
UniqueIndexAllows_NoIndex(email, self) == TRUE

\* userSchema.email unique: true: the index refuses a write that would give
\* two documents the same stored email
UniqueIndexAllows(email, self) ==
  \A i \in ExistingIds \ {self} : users[i].email # email

\* body('email').isEmail().normalizeEmail() of the register route
normalizeEmail(email) == IF email = "A@x.com" THEN "a@x.com" ELSE email

FreeSlots == {s \in Slots : inflight[s] = NoRequest}

\* createAccount up to `await User.findOne({ email })` and its answer
createAccountCheck(email, password) ==
  /\ Idle
  /\ IF findOne(email) # {}
     THEN /\ last' = [NoLast EXCEPT !.op = "createAccount", !.email = email,
                        !.resp = Resp(409, "A user with that email is already registered")]
          /\ UNCHANGED inflight
     ELSE /\ FreeSlots # {}
          /\ LET s == CHOOSE f \in FreeSlots : \A g \in FreeSlots : f <= g IN
             inflight' = [inflight EXCEPT ![s] =
                            [op |-> "createAccount", email |-> email,
                             password |-> password]]
          /\ UNCHANGED last
  /\ UNCHANGED <<users, nextId, now, JWT_SECRET, tokens, streak>>

\* createAccount from `new User(req.body)` to its answer: user.save()
\* inserts the document unless the unique index refuses it
createAccountSave(s, salt) ==
  LET r == inflight[s]
      u == [exists |-> TRUE, email |-> toLowerCase(r.email),
            password |-> hashPassword(r.password, salt),
            loginAttempts |-> 0, lockUntil |-> NoDate]
  IN
  /\ Idle
  /\ r.op = "createAccount"
  /\ inflight' = [inflight EXCEPT ![s] = NoRequest]
  /\ IF ~UniqueIndexAllows(u.email, NoId)
     THEN /\ last' = [NoLast EXCEPT !.op = "createAccount", !.email = r.email,
                        !.resp = Resp(500, "There was a server error")]
          /\ UNCHANGED <<users, nextId, streak>>
     ELSE /\ nextId <= MaxUsers
          /\ users' = [users EXCEPT ![nextId] = u]
          /\ streak' = [streak EXCEPT ![nextId] = Fresh(u)]
          /\ nextId' = nextId + 1
          /\ last' = [NoLast EXCEPT !.op = "createAccount", !.email = r.email,
                        !.resp = Resp(201, ""), !.reqUser = nextId]
  /\ UNCHANGED <<now, JWT_SECRET, tokens>>

\* updateUser up to the email existence check and its answer
updateUserCheck(header, updates) ==
  LET auth == authenticate(header)
      base == [NoLast EXCEPT !.op = "updateUser", !.header = header,
                             !.ran = TRUE, !.reqUser = auth.user,
                             !.pre = users[auth.user], !.email = updates.email]
  IN
  /\ Idle
  /\ IF ~auth.next
     THEN /\ last' = [NoLast EXCEPT !.op = "updateUser", !.header = header,
                        !.resp = auth.resp]
          /\ UNCHANGED inflight
     ELSE IF updates.email # Absent /\ updates.email # users[auth.user].email
             /\ findOne(updates.email) # {}
     THEN /\ last' = [base EXCEPT !.resp = Resp(400, "Email already exists in database")]
          /\ UNCHANGED inflight
     ELSE /\ FreeSlots # {}
          /\ LET s == CHOOSE f \in FreeSlots : \A g \in FreeSlots : f <= g IN
             inflight' = [inflight EXCEPT ![s] =
                            [op |-> "updateUser", id |-> auth.user,
                             updates |-> updates]]
          /\ UNCHANGED last
  /\ UNCHANGED <<users, nextId, now, JWT_SECRET, tokens, streak>>

\* updateUser from the assignments to its answer: user.save() writes the
\* modified paths unless the document is gone or the index refuses
updateUserSave(s) ==
  LET r == inflight[s]
      base == [NoLast EXCEPT !.op = "updateUser", !.ran = TRUE,
                             !.reqUser = r.id, !.email = r.updates.email]
  IN
  /\ Idle
  /\ r.op = "updateUser"
  /\ inflight' = [inflight EXCEPT ![s] = NoRequest]
  /\ IF users[r.id] = NoUser
     THEN /\ last' = [base EXCEPT !.resp = Resp(500, "Error updating user data")]
          /\ UNCHANGED <<users, streak>>
     ELSE LET u == Assign(users[r.id], r.updates) IN
          IF ~UniqueIndexAllows(u.email, r.id)
          THEN /\ last' = [base EXCEPT !.pre = users[r.id],
                             !.resp = Resp(500, "Error updating user data")]
               /\ UNCHANGED <<users, streak>>
          ELSE /\ users' = [users EXCEPT ![r.id] = u]
               /\ streak' = [streak EXCEPT ![r.id] = Fresh(u)]
               /\ last' = [base EXCEPT !.pre = users[r.id], !.resp = Resp(200, "")]
  /\ UNCHANGED <<nextId, now, JWT_SECRET, tokens>>

\* ------------------------------------------- the store is unavailable
\* loginUser when User.findOne rejects: the catch block answers
loginUserStoreDown(email, password) ==
  /\ Idle
  /\ last' = [NoLast EXCEPT !.op = "loginUser", !.case = "storeDown",
                !.resp = Resp(500, "Try again later")]
  /\ UNCHANGED <<users, nextId, now, JWT_SECRET, tokens, streak>>

\* authenticate when User.findById rejects: the rejection lands in the
\* catch block that answers token errors
authenticateStoreDown(header) ==
  IF header.kind = "none"
    THEN AuthResult(FALSE, TRUE, Resp(401, "Unauthorized"), NoId)
  ELSE IF header.kind = "noToken"
    THEN AuthResult(FALSE, TRUE, Resp(401, "Unauthorized"), NoId)
  ELSE
    LET result == verifyToken(header.token, JWT_SECRET, now) IN
    IF result.ok
    THEN IF result.id # NoId
         THEN AuthResult(FALSE, TRUE, Resp(401, "Invalid token"), NoId)
         ELSE AuthResult(FALSE, FALSE, Resp(0, ""), NoId)
    ELSE IF result.name = "TokenExpiredError"
         THEN AuthResult(FALSE, TRUE, Resp(401, "Token expired"), NoId)
         ELSE AuthResult(FALSE, TRUE, Resp(401, "Invalid token"), NoId)

\* a request to a route behind requireAuth while the store is unavailable;
\* the store is reached only with a token that verifies
protectedStoreDown(op, header) ==
  LET auth == authenticateStoreDown(header)
      reached == header.kind = "bearer"
                   /\ verifyToken(header.token, JWT_SECRET, now).ok
  IN
  /\ Idle
  /\ last' = [NoLast EXCEPT !.op = op, !.header = header, !.resp = auth.resp,
                !.case = IF reached THEN "storeDown" ELSE ""]
  /\ UNCHANGED <<users, nextId, now, JWT_SECRET, tokens, streak>>

\* every handler runs to its response with no other request in between
\* incLoginAttempts as one atomic $inc on the stored document
updateAttempts_Atomic(stored, doc, t) ==
  IF stored.lockUntil # NoDate /\ stored.lockUntil < t
    THEN [stored EXCEPT !.loginAttempts = 0, !.lockUntil = NoDate]
  ELSE IF stored.loginAttempts + 1 >= LOCK_THRESHOLD
    THEN [stored EXCEPT !.loginAttempts = stored.loginAttempts + 1,
                        !.lockUntil = t + LOCK_TIME]
  ELSE [stored EXCEPT !.loginAttempts = stored.loginAttempts + 1]

\* the updateOne of incLoginAttempts: the new values are computed from the
\* document instance loaded earlier and $set / $unset on the stored one
updateAttempts(stored, doc, t) ==
  IF doc.lockUntil # NoDate /\ doc.lockUntil < t
    THEN [stored EXCEPT !.loginAttempts = 0, !.lockUntil = NoDate]
  ELSE IF doc.loginAttempts + 1 >= LOCK_THRESHOLD
    THEN [stored EXCEPT !.loginAttempts = doc.loginAttempts + 1,
                        !.lockUntil = t + LOCK_TIME]
  ELSE [stored EXCEPT !.loginAttempts = doc.loginAttempts + 1]

\* loginUser up to the document returned by `await User.findOne({ email })`
loginUserFind(email, password) ==
  /\ Idle
  /\ IF findOne(email) = {}
     THEN /\ last' = [NoLast EXCEPT !.op = "loginUser", !.case = "unknown",
                        !.resp = loginUnknown.resp]
          /\ UNCHANGED inflight
     ELSE /\ FreeSlots # {}
          /\ LET s == CHOOSE f \in FreeSlots : \A g \in FreeSlots : f <= g
                 id == CHOOSE i \in findOne(email) : TRUE
             IN inflight' = [inflight EXCEPT ![s] =
                               [op |-> "loginUser", id |-> id,
                                doc |-> users[id], password |-> password]]
          /\ UNCHANGED last
  /\ UNCHANGED <<users, nextId, now, JWT_SECRET, tokens, streak>>

\* loginUser from checkPassword on the loaded document to its answer
loginUserAnswer(s) ==
  LET r == inflight[s]
      base == [NoLast EXCEPT !.op = "loginUser", !.reqUser = r.id,
                             !.pre = r.doc]
  IN
  /\ Idle
  /\ r.op = "loginUser"
  /\ inflight' = [inflight EXCEPT ![s] = NoRequest]
  /\ IF ~checkPassword(r.password, r.doc.password)
     THEN /\ r.doc.loginAttempts < MaxAttempts
          /\ users' = IF users[r.id] = NoUser THEN users
                      ELSE [users EXCEPT ![r.id] = updateAttempts(@, r.doc, now)]
          /\ streak' = [streak EXCEPT ![r.id] =
                          IF @ \in 0..(MaxAttempts - 1) THEN @ + 1 ELSE -1]
          /\ last' = [base EXCEPT !.case = "wrongpw",
                                  !.resp = Resp(401, "Invalid email or password")]
          /\ UNCHANGED tokens
     ELSE LET token == generateToken(r.id, JWT_SECRET, now) IN
          /\ users' = IF users[r.id] # NoUser /\ r.doc.loginAttempts > 0
                      THEN [users EXCEPT ![r.id] = resetLoginAttempts(@)]
                      ELSE users
          /\ streak' = [streak EXCEPT ![r.id] = -1]
          /\ IF token = Thrown
             THEN /\ last' = [base EXCEPT !.case = "error",
                                          !.resp = Resp(500, "Try again later")]
                  /\ UNCHANGED tokens
             ELSE /\ last' = [base EXCEPT !.case = "ok", !.token = token,
                                          !.resp = Resp(200, ""),
                                          !.bodyUser = loginBody(r.id, r.doc)]
                  /\ \E keep \in SUBSET tokens :
                       /\ Cardinality(keep) < MaxTokens
                       /\ Cardinality(keep) >= Cardinality(tokens) - 1
                       /\ tokens' = keep \cup {token}
  /\ UNCHANGED <<nextId, now, JWT_SECRET>>

Sequential == UNCHANGED <<inflight, reviews, favorites, outbox>>

\* a step of the account handlers that are interleaved at their awaits
AccountsOnly == UNCHANGED <<reviews, favorites, outbox>>

Next ==
  \/ Respond /\ Sequential
  \/ Tick /\ Sequential
  \/ \E secret \in Secrets \cup {NoSecret} : Restart(secret) /\ Sequential
  \/ \E tk \in tokens : DropToken(tk) /\ Sequential
  \/ \E e \in RegisterEmails, p \in RegisterPasswords :
       createAccount(e, p, 1, AbsentNum, AbsentNum) /\ Sequential
  \/ \E e \in Emails, p \in Passwords : loginUser(e, p) /\ Sequential
  \/ \E h \in Headers : getCurrentUser(h) /\ Sequential
  \/ \E h \in Headers, b \in UpdateBodies : updateUser(h, b) /\ Sequential
  \/ \E h \in Headers, p \in Passwords \cup {Absent} :
       deleteUserAccount(h, p) /\ Sequential

Spec == Init /\ [][Next]_vars

\* the same system when no caller uses PUT /api/auth/user
NextLogin ==
  \/ Respond /\ Sequential
  \/ Tick /\ Sequential
  \/ \E secret \in Secrets \cup {NoSecret} : Restart(secret) /\ Sequential
  \/ \E tk \in tokens : DropToken(tk) /\ Sequential
  \/ \E e \in RegisterEmails, p \in RegisterPasswords :
       createAccount(e, p, 1, AbsentNum, AbsentNum) /\ Sequential
  \/ \E e \in Emails, p \in Passwords : loginUser(e, p) /\ Sequential
  \/ \E h \in Headers : getCurrentUser(h) /\ Sequential
  \/ \E h \in Headers, p \in Passwords \cup {Absent} :
       deleteUserAccount(h, p) /\ Sequential

SpecLogin == Init /\ [][NextLogin]_vars

\* the login system when the store can be unavailable for a request
NextStore ==
  \/ NextLogin
  \/ \E e \in Emails, p \in Passwords : loginUserStoreDown(e, p) /\ Sequential
  \/ \E op \in {"getCurrentUser", "updateUser", "deleteUserAccount"},
        h \in Headers : protectedStoreDown(op, h) /\ Sequential

SpecStore == Init /\ [][NextStore]_vars

\* the login system with password reset by link
NextSession ==
  \/ NextLogin
  \/ \E i \in Ids, p \in Passwords, c \in Passwords :
       resetPassword(i, p, c, 1) /\ Sequential

SpecSession == Init /\ [][NextSession]_vars

\* profile and password maintenance: bodies that carry an email and a
\* password, at a fixed time and with a fixed secret
ProfileBodies ==
  [email : {Absent, "b@x.com"}, password : {Absent, "Zyxwvut9"},
   loginAttempts : {AbsentNum}, lockUntil : {AbsentNum}]
MailOutcomes == {"resolved", "rejected"}

NextProfile ==
  \/ Respond /\ Sequential
  \/ \E tk \in tokens : DropToken(tk) /\ Sequential
  \/ \E e \in RegisterEmails, p \in RegisterPasswords :
       createAccount(e, p, 1, AbsentNum, AbsentNum) /\ Sequential
  \/ \E e \in Emails, p \in Passwords : loginUser(e, p) /\ Sequential
  \/ \E h \in Headers, b \in ProfileBodies : updateUser(h, b) /\ Sequential
  \/ \E i \in Ids, p \in Passwords, c \in Passwords :
       resetPassword(i, p, c, 1) /\ Sequential
  \/ \E e \in Emails, m \in MailOutcomes :
       forgotPassword(e, m) /\ UNCHANGED <<inflight, reviews, favorites>>
  \/ \E h \in Headers, p \in Passwords \cup {Absent} :
       deleteUserAccount(h, p) /\ Sequential

SpecProfile == Init /\ [][NextProfile]_vars

\* registration and email change with handlers interleaved at their awaits,
\* at a fixed time and with a fixed secret
RawEmails == {"a@x.com", "A@x.com", "b@x.com"}
EmailBodies ==
  [email : RawEmails, password : {Absent},
   loginAttempts : {AbsentNum}, lockUntil : {AbsentNum}]

NextRegister ==
  \/ Respond /\ Sequential
  \/ \E e \in RawEmails, p \in RegisterPasswords :
       createAccountCheck(normalizeEmail(e), p) /\ AccountsOnly
  \/ \E s \in Slots : createAccountSave(s, 1) /\ AccountsOnly
  \/ \E e \in Emails, p \in RegisterPasswords : loginUser(e, p) /\ Sequential
  \/ \E h \in Headers, b \in EmailBodies : updateUserCheck(h, b) /\ AccountsOnly
  \/ \E s \in Slots : updateUserSave(s) /\ AccountsOnly

SpecRegister == Init /\ [][NextRegister]_vars

\* logins on one account interleaved at their awaits, at a fixed time
NextRace ==
  \/ Respond /\ Sequential
  \/ \E e \in RegisterEmails, p \in RegisterPasswords :
       createAccount(e, p, 1, AbsentNum, AbsentNum) /\ Sequential
  \/ \E e \in Emails, p \in Passwords : loginUserFind(e, p) /\ AccountsOnly
  \/ \E s \in Slots : loginUserAnswer(s) /\ AccountsOnly

SpecRace == Init /\ [][NextRace]_vars

\* the protected routes called with any token that verifies or not,
\* tokens whose payload carries no id included
IdlessTokens ==
  {[kind |-> "jwt", id |-> NoId, iat |-> Sec(now),
    exp |-> Sec(now) + TOKEN_LIFETIME, key |-> k] : k \in Secrets}

GateHeaders ==
  Headers \cup {[kind |-> "bearer", token |-> tk] : tk \in IdlessTokens}

NextGate ==
  \/ Respond /\ Sequential
  \/ Tick /\ Sequential
  \/ \E e \in RegisterEmails, p \in RegisterPasswords :
       createAccount(e, p, 1, AbsentNum, AbsentNum) /\ Sequential
  \/ \E e \in Emails, p \in Passwords : loginUser(e, p) /\ Sequential
  \/ \E h \in GateHeaders : getCurrentUser(h) /\ Sequential

SpecGate == Init /\ [][NextGate]_vars

\* ----------------------------------------------------- movie.routes.ts
\* the routes in the order router.get registers them
MovieRoutes ==
  << [path |-> <<"api", "movies">>, handler |-> "getMovies"],
     [path |-> <<"api", "movies", ":id">>, handler |-> "getMovieById"],
     [path |-> <<"api", "movies", "featured">>, handler |-> "getFeaturedMovies"],
     [path |-> <<"api", "movies", "genre", ":genre">>,
      handler |-> "getMoviesByGenre"],
     [path |-> <<"api", "movies", "genres">>, handler |-> "getGenres"] >>

RouteParams == {":id", ":genre"}

\* a route pattern matches a path segment by segment; a parameter matches
\* any segment
Matches(pattern, path) ==
  /\ Len(pattern) = Len(path)
  /\ \A k \in 1..Len(pattern) :
       pattern[k] \in RouteParams \/ pattern[k] = path[k]

\* Express hands the request to the first registered route that matches
Dispatch(routes, path) ==
  LET hits == {k \in 1..Len(routes) : Matches(routes[k].path, path)} IN
  IF hits = {} THEN "notFound"
  ELSE routes[CHOOSE k \in hits : \A j \in hits : k <= j].handler

\* strings of 24 hex digits, and the ids of the active movies among them
ObjectIdStrings == {"64a000000000000000000001", "64a000000000000000000002"}
Movies == {"64a000000000000000000001"}

MoviePaths ==
  { <<"api", "movies">>, <<"api", "movies", "featured">>,
    <<"api", "movies", "genres">>, <<"api", "movies", "genre", "drama">>,
    <<"api", "movies", "64a000000000000000000001">>,
    <<"api", "movies", "64a000000000000000000002">> }

\* what the movie handler chosen for the path answers
movieResponse(handler, path) ==
  IF handler = "getMovieById"
  THEN IF path[3] \notin ObjectIdStrings
       THEN Resp(400, "ID de película inválido")
       ELSE IF path[3] \notin Movies
       THEN Resp(404, "Película no encontrada")
       ELSE Resp(200, "")
  ELSE IF handler = "notFound" THEN Resp(404, "Route not found")
  ELSE Resp(200, "")

\* GET on a movie path, behind requireAuth
movieRequest(header, path) ==
  LET auth == authenticate(header)
      handler == Dispatch(MovieRoutes, path)
  IN
  Idle /\
  IF ~auth.next THEN Rejected("movies", header, auth)
  ELSE /\ last' = [NoLast EXCEPT !.op = handler, !.header = header,
                     !.ran = TRUE, !.reqUser = auth.user, !.path = path,
                     !.resp = movieResponse(handler, path)]
       /\ UNCHANGED <<users, nextId, now, JWT_SECRET, tokens, streak>>

NextCatalog ==
  \/ Respond /\ Sequential
  \/ Tick /\ Sequential
  \/ \E e \in RegisterEmails, p \in RegisterPasswords :
       createAccount(e, p, 1, AbsentNum, AbsentNum) /\ Sequential
  \/ \E e \in Emails, p \in Passwords : loginUser(e, p) /\ Sequential
  \/ \E h \in Headers, path \in MoviePaths :
       movieRequest(h, path) /\ Sequential

SpecCatalog == Init /\ [][NextCatalog]_vars

\* -------------------------------------- handlers/reviews.ts, favorites.ts
\* req.params.id: the _id of a document the collection may hold, or a
\* string that does not cast to an ObjectId
MalformedId == -1
ReviewParams == ReviewIds \cup {MalformedId}
BodyRatings == {AbsentNum, 2, 9}

\* a request on a protected content route answered without a write
contentAnswer(base, resp) ==
  /\ last' = [base EXCEPT !.resp = resp]
  /\ UNCHANGED <<users, nextId, now, JWT_SECRET, tokens, streak, reviews,
                 favorites>>

\* POST /api/reviews
createReview(header, rating) ==
  LET auth == authenticate(header)
      base == [NoLast EXCEPT !.op = "createReview", !.header = header,
                             !.ran = TRUE, !.reqUser = auth.user,
                             !.rating = rating]
      free == {r \in ReviewIds : reviews[r] = NoReview}
  IN
  Idle /\
  IF ~auth.next
  THEN Rejected("createReview", header, auth) /\ UNCHANGED <<reviews, favorites>>
  ELSE IF rating \notin 1..5
  THEN contentAnswer(base, Resp(400, "rating 1-5"))
  ELSE /\ free # {}
       /\ LET r == CHOOSE r \in free : \A q \in free : r <= q IN
          /\ reviews' = [reviews EXCEPT ![r] =
                           [user |-> auth.user, rating |-> rating]]
          /\ last' = [base EXCEPT !.resp = Resp(201, ""), !.review = r]
       /\ UNCHANGED <<users, nextId, now, JWT_SECRET, tokens, streak, favorites>>

\* the ownership test left out
mayChange_Anyone(review, userId) == TRUE

\* String(review.user) !== String(userId) answers 403
mayChange(review, userId) == review.user = userId

\* DELETE /api/reviews/:id
deleteReview(header, id) ==
  LET auth == authenticate(header)
      base == [NoLast EXCEPT !.op = "deleteReview", !.header = header,
                             !.ran = TRUE, !.reqUser = auth.user,
                             !.review = id]
  IN
  Idle /\
  IF ~auth.next
  THEN Rejected("deleteReview", header, auth) /\ UNCHANGED <<reviews, favorites>>
  ELSE IF id = MalformedId
  THEN contentAnswer(base, Resp(500, "Server error"))
  ELSE IF reviews[id] = NoReview
  THEN contentAnswer(base, Resp(404, "Not found"))
  ELSE IF ~mayChange(reviews[id], auth.user)
  THEN contentAnswer(base, Resp(403, "Forbidden"))
  ELSE /\ reviews' = [reviews EXCEPT ![id] = NoReview]
       /\ last' = [base EXCEPT !.resp = Resp(200, "")]
       /\ UNCHANGED <<users, nextId, now, JWT_SECRET, tokens, streak, favorites>>

\* PATCH /api/reviews/:id
updateReview(header, id, rating) ==
  LET auth == authenticate(header)
      base == [NoLast EXCEPT !.op = "updateReview", !.header = header,
                             !.ran = TRUE, !.reqUser = auth.user,
                             !.review = id, !.rating = rating]
  IN
  Idle /\
  IF ~auth.next
  THEN Rejected("updateReview", header, auth) /\ UNCHANGED <<reviews, favorites>>
  ELSE IF rating # AbsentNum /\ rating \notin 1..5
  THEN contentAnswer(base, Resp(400, "rating 1-5"))
  ELSE IF id = MalformedId
  THEN contentAnswer(base, Resp(500, "Server error"))
  ELSE IF reviews[id] = NoReview
  THEN contentAnswer(base, Resp(404, "Not found"))
  ELSE IF ~mayChange(reviews[id], auth.user)
  THEN contentAnswer(base, Resp(403, "Forbidden"))
  ELSE IF rating = AbsentNum
  THEN contentAnswer(base, Resp(400, "No changes provided"))
  ELSE /\ reviews' = [reviews EXCEPT ![id].rating = rating]
       /\ last' = [base EXCEPT !.resp = Resp(200, "")]
       /\ UNCHANGED <<users, nextId, now, JWT_SECRET, tokens, streak, favorites>>

\* POST /api/favorites
addFavorite(header, movieId) ==
  LET auth == authenticate(header)
      base == [NoLast EXCEPT !.op = "addFavorite", !.header = header,
                             !.ran = TRUE, !.reqUser = auth.user]
  IN
  Idle /\
  IF ~auth.next
  THEN Rejected("addFavorite", header, auth) /\ UNCHANGED <<reviews, favorites>>
  ELSE IF movieId = Absent
  THEN contentAnswer(base, Resp(400, "movieId is required"))
  ELSE /\ favorites' = favorites \cup {[user |-> auth.user, movieId |-> movieId]}
       /\ last' = [base EXCEPT !.resp = Resp(201, "")]
       /\ UNCHANGED <<users, nextId, now, JWT_SECRET, tokens, streak, reviews>>

\* a step of the review and favorite handlers
ContentOnly == UNCHANGED <<inflight, outbox>>

\* the headers of callers of the content routes: none, or a token they hold
ContentHeaders ==
  {[kind |-> "none", token |-> NoToken]}
  \cup {[kind |-> "bearer", token |-> tk] : tk \in tokens}

\* accounts and their reviews, at a fixed time, every login with the
\* registered password
NextReviews ==
  \/ Respond /\ Sequential
  \/ \E tk \in tokens : DropToken(tk) /\ Sequential
  \/ \E e \in Emails, p \in RegisterPasswords :
       createAccount(e, p, 1, AbsentNum, AbsentNum) /\ Sequential
  \/ \E e \in Emails, p \in RegisterPasswords : loginUser(e, p) /\ Sequential
  \/ \E h \in ContentHeaders, n \in {1, 9} : createReview(h, n) /\ ContentOnly
  \/ \E h \in ContentHeaders, id \in ReviewParams, n \in BodyRatings :
       updateReview(h, id, n) /\ ContentOnly
  \/ \E h \in ContentHeaders, id \in ReviewParams :
       deleteReview(h, id) /\ ContentOnly

SpecReviews == Init /\ [][NextReviews]_vars

\* an account with its reviews and favorites, and its deletion
NextCascade ==
  \/ Respond /\ Sequential
  \/ \E e \in RegisterEmails, p \in RegisterPasswords :
       createAccount(e, p, 1, AbsentNum, AbsentNum) /\ Sequential
  \/ \E e \in Emails, p \in RegisterPasswords : loginUser(e, p) /\ Sequential
  \/ \E h \in ContentHeaders, n \in {1, 9} : createReview(h, n) /\ ContentOnly
  \/ \E h \in ContentHeaders, m \in Movies \cup {Absent} :
       addFavorite(h, m) /\ ContentOnly
  \/ \E h \in ContentHeaders, p \in RegisterPasswords \cup {Absent} :
       deleteUserAccount(h, p) /\ Sequential

SpecCascade == Init /\ [][NextCascade]_vars

\* ============================================================== claims
LoginOn(i) == last.op = "loginUser" /\ last.reqUser = i

InvalidCredentials == Resp(401, "Invalid email or password")

\* C1: a Login on an account whose lockUntil is later than now is rejected
\* with AccountLocked, whatever the password, and issues no token.
C1_LockoutEnforced ==
  \A i \in Ids :
    (LoginOn(i) /\ isLocked(last.pre, now))
      => (last.resp.error = "AccountLocked" /\ last.token = NoToken)

\* C2: after k wrong-password Logins in a row on an account that was Open
\* with no failures (1 <= k <= 5) loginAttempts = k; lockUntil is absent
\* for k < 5 and is the time of the fifth attempt plus LOCK_TIME for k = 5.
C2_ConsecutiveFailures ==
  [][\A i \in Ids :
       streak'[i] \in 1..LOCK_THRESHOLD =>
         /\ users'[i] # NoUser
         /\ users'[i].loginAttempts = streak'[i]
         /\ streak'[i] < LOCK_THRESHOLD => users'[i].lockUntil = NoDate
         /\ streak'[i] = LOCK_THRESHOLD =>
              users'[i].lockUntil =
                IF streak[i] = LOCK_THRESHOLD - 1
                THEN now + LOCK_TIME ELSE users[i].lockUntil]_vars

C2_Witness ==
  \E i \in Ids :
    /\ streak[i] = LOCK_THRESHOLD
    /\ LoginOn(i) /\ last.case = "wrongpw"
    /\ last.pre.loginAttempts = LOCK_THRESHOLD - 1
    /\ users[i].lockUntil = now + LOCK_TIME

\* a wrong-password Login on an account whose lock has elapsed
ElapsedLockFailure(i) ==
  /\ LoginOn(i) /\ last.case = "wrongpw"
  /\ last.pre.lockUntil # NoDate /\ last.pre.lockUntil < now

C4_SuccessClearsCounters ==
  \A i \in Ids :
    (LoginOn(i) /\ last.case = "ok") =>
      (users[i].loginAttempts = 0 /\ users[i].lockUntil = NoDate)

\* C5: a Login with an unknown identifier is answered exactly as a Login
\* with a known identifier and a wrong password (same status, same body).
C5_LoginIndistinguishable ==
  \A unknown \in Emails, p \in Passwords :
    LET ru == loginResult(unknown, p) IN
    ru.case = "unknown" =>
      \A known \in Emails, q \in Passwords :
        LET rk == loginResult(known, q) IN
        rk.case = "wrongpw" => ru.resp = rk.resp

C5_Witness ==
  /\ last.op = "loginUser" /\ last.case = "wrongpw"
  /\ \E unknown \in Emails, p \in Passwords :
       /\ findOne(unknown) = {}
       /\ loginResult(unknown, p).resp = last.resp

\* ------------------------------------------------------ token claims
Bearer(tk) == [kind |-> "bearer", token |-> tk]

Protected == {"getCurrentUser", "updateUser", "deleteUserAccount"}

\* C6: a token issued by Login for subject S at time t (its iat, the whole
\* second of the Login) verifies as subject S exactly when it is checked
\* against the secret it was signed with and the current time, in whole
\* seconds, is before t + TOKEN_LIFETIME; it is rejected from
\* t + TOKEN_LIFETIME on, and at any time under another secret.
C6_TokenLifetime ==
  /\ (last.op = "loginUser" /\ last.case = "ok") =>
       /\ last.token.id = last.reqUser
       /\ last.token.iat = Sec(now)
       /\ last.token.key = JWT_SECRET
  /\ \A tk \in tokens :
       LET v == verifyToken(tk, JWT_SECRET, now) IN
       /\ (v.ok /\ v.id = tk.id)
            <=> (tk.key = JWT_SECRET /\ Sec(now) < tk.iat + TOKEN_LIFETIME)
       /\ ~v.ok => v.id = NoId

C6_Witness ==
  \E tk \in tokens :
    /\ tk.key = JWT_SECRET
    /\ Sec(now) = tk.iat + TOKEN_LIFETIME
    /\ ~verifyToken(tk, JWT_SECRET, now).ok

\* C7: a token whose signature does not verify against the server secret
\* is answered InvalidToken, never TokenExpired, also when it is past its
\* expiry; a correctly signed token past its expiry is answered
\* TokenExpired, never InvalidToken.
C7_TokenFailuresDistinguished ==
  \A tk \in tokens \cup ForgedTokens :
    LET a == authenticate(Bearer(tk)) IN
    /\ tk.key # JWT_SECRET =>
         (~a.next /\ a.resp.error = "Invalid token")
    /\ (tk.key = JWT_SECRET /\ Sec(now) >= tk.exp) =>
         (~a.next /\ a.resp.error = "Token expired")

C7_Witness ==
  /\ last.op \in Protected
  /\ last.header.kind = "bearer" /\ last.header.token.kind = "jwt"
  /\ last.header.token.key # JWT_SECRET
  /\ Sec(now) >= last.header.token.exp
  /\ last.resp.error = "Invalid token"

C10_DeletedAccountTokens ==
  \A tk \in tokens :
    users[tk.id] = NoUser =>
      LET a == authenticate(Bearer(tk)) IN
      /\ ~a.next
      /\ (tk.key = JWT_SECRET /\ Sec(now) < tk.exp) =>
           a.resp.error = "User does not exist"

C10_Witness ==
  /\ last.op \in Protected /\ ~last.ran
  /\ last.header.kind = "bearer" /\ last.header.token \in tokens
  /\ users[last.header.token.id] = NoUser
  /\ \E i \in ExistingIds : i # last.header.token.id
  /\ last.resp.error = "User does not exist"

\* ------------------------------------------------ robustness claims
\* C11: a request (Login, or a request stopped in Authenticate) during
\* which the store was reached and was unavailable is answered with
\* status 500, never with a 401 authentication failure.
C11_StoreFailureIs500 ==
  last.case = "storeDown" => last.resp.status = 500

\* ------------------------------------------------- account claims
\* C12: loginAttempts and lockUntil of an existing account change only
\* in a step of loginUser; no other operation sets, increments or clears
\* them, whatever body the caller sends.
C12_CountersOnlyByLogin ==
  [][\A i \in Ids :
       (/\ users[i] # NoUser
        /\ users'[i] # NoUser
        /\ \/ users'[i].loginAttempts # users[i].loginAttempts
           \/ users'[i].lockUntil # users[i].lockUntil)
         => last'.op = "loginUser"]_vars

\* C13: the password stored for every account is a digest produced by
\* hashPassword, never a plaintext sent by a caller.
C13_PasswordAlwaysDigest ==
  \A i \in ExistingIds : users[i].password.hashed

\* C14: Authenticate only reads the store: a request that the middleware
\* answers itself (token absent, malformed, forged, expired, or of a
\* missing account), and a request it lets through to a handler that only
\* reads (getCurrentUser), leave every field of every account unchanged.
C14_AuthenticateReadOnly ==
  [][(/\ last'.op \in Protected
      /\ ~last'.ran \/ last'.op = "getCurrentUser")
       => users' = users]_vars

C14_Witness ==
  /\ last.op \in Protected /\ ~last.ran
  /\ last.header.kind = "bearer" /\ last.header.token \in tokens
  /\ last.resp.error = "Token expired"
  /\ users[last.header.token.id] # NoUser
  /\ users[last.header.token.id].loginAttempts > 0

\* C16: an account is deleted only by a delete request of that account
\* whose password verifies against the stored digest; a delete request
\* with a missing or wrong password fails (400 / 401) and leaves every
\* account, credentials and counters included, unchanged.
Verifies(password, digest) ==
  password # Absent /\ digest.hashed
    /\ hashPassword(password, digest.salt) = digest

C16_DeleteNeedsPassword ==
  [][/\ \A i \in Ids :
          (users[i] # NoUser /\ users'[i] = NoUser) =>
            /\ last'.op = "deleteUserAccount" /\ last'.reqUser = i
            /\ Verifies(last'.password, users[i].password)
     /\ (/\ last'.op = "deleteUserAccount" /\ last'.ran
         /\ ~Verifies(last'.password, last'.pre.password))
          => /\ users' = users
             /\ last'.resp.status \in {400, 401}]_vars

C16_Witness ==
  /\ last.op = "deleteUserAccount" /\ last.ran
  /\ last.password \in Passwords
  /\ last.resp = Resp(401, "Incorrect password")
  /\ users[last.reqUser] = last.pre
  /\ last.pre.loginAttempts > 0

\* C15: no two accounts share an email, compared without regard to case,
\* after any interleaving of register and update-profile requests (two
\* registrations of one email that both pass the existence check
\* included); a registration of an email that is registered when it is
\* answered is rejected and creates no account.
CaseFold(email) == IF email = "A@x.com" THEN "a@x.com" ELSE email

EmailsUnique ==
  \A i \in ExistingIds, j \in ExistingIds :
    i # j => CaseFold(users[i].email) # CaseFold(users[j].email)

C15_EmailUnique ==
  [][/\ EmailsUnique'
     /\ (/\ last'.op = "createAccount" /\ last # last'
         /\ \E i \in ExistingIds :
              CaseFold(users[i].email) = CaseFold(last'.email))
          => /\ users' = users
             /\ last'.resp.status \in {409, 500}]_vars

C15_Witness ==
  /\ last.op = "createAccount"
  /\ last.resp = Resp(500, "There was a server error")
  /\ \E i \in ExistingIds : users[i].email = CaseFold(last.email)
  /\ \E i \in ExistingIds : users[i].email = "b@x.com"

\* C17: there is no revocation. A token issued for an account, whether a
\* client still holds it or has discarded it (logout), passes Authenticate
\* as that account at every time before its expiry (iat + TOKEN_LIFETIME)
\* while the account exists and JWT_SECRET is the secret it was signed
\* with, whatever logins, failed logins, lockout or password reset came
\* in between.
Issuable ==
  {generateToken(i, k, t) : i \in ExistingIds, k \in Secrets, t \in 0..now}

C17_NoRevocation ==
  \A tk \in tokens \cup Issuable :
    (/\ users[tk.id] # NoUser
     /\ tk.key = JWT_SECRET
     /\ Sec(now) < tk.exp)
      => LET a == authenticate(Bearer(tk)) IN a.next /\ a.user = tk.id

C17_Witness ==
  /\ last.op = "getCurrentUser" /\ last.ran
  /\ last.resp.status = 200
  /\ last.header.token \in tokens
  /\ isLocked(last.pre, now)
  /\ last.pre.password.text = "Zyxwvut9"

\* C18: no Login and no request behind Authenticate is processed while no
\* JWT_SECRET is configured: without a secret the process does not serve.
C18_NoServiceWithoutSecret ==
  last.op \in {"loginUser"} \cup Protected => JWT_SECRET # NoSecret

\* C19: the answer of forgot-password (status and body) is the answer any
\* other email would have got, whether or not an account has that email.
Answers(email, mail) == {r.resp : r \in forgotPasswordResult(email, mail)}

C19_ForgotPasswordUniform ==
  (last.op = "forgotPassword" /\ last.case # "mailFailed") =>
    \A e \in Emails : last.resp \in Answers(e, "resolved")

\* C20: when the mail sender fails during forgot-password the request is
\* still answered, with the answer given when the mail was sent.
C20_MailFailureNotSurfaced ==
  (last.op = "forgotPassword" /\ last.case = "mailFailed") =>
    /\ last.resp # Unanswered
    /\ last.resp \in Answers(last.email, "resolved")

\* ------------------------------------------------ response bodies
\* C21: a successful Login response carries the token and a minimal
\* profile only; for every account and every outcome of Login, success or
\* failure, the response body carries neither the password nor its digest.
C21_LoginBodyMinimal ==
  last.op = "loginUser" =>
    /\ "password" \notin DOMAIN last.bodyUser
    /\ last.case = "ok" =>
         /\ last.token # NoToken
         /\ last.bodyUser = [id |-> last.reqUser,
                             email |-> users[last.reqUser].email]
    /\ last.case # "ok" => (last.token = NoToken /\ last.bodyUser = NoFields)

C21_Witness ==
  /\ last.op = "loginUser" /\ last.case = "ok"
  /\ last.pre.loginAttempts > 0
  /\ last.bodyUser.id = last.reqUser

\* C28: no account endpoint other than Login leaks the secret: the response
\* bodies of register, get-current-user and update-profile never contain
\* the stored password digest of any account.
C28_NoDigestInBodies ==
  last.op \in {"createAccount", "getCurrentUser", "updateUser"} =>
    "password" \notin DOMAIN last.bodyUser

\* ------------------------------------------------ the lock counter
\* C25: in every reachable state loginAttempts is between 0 and
\* LOCK_THRESHOLD inclusive, and a wrong-password Login on an account that
\* is locked leaves the lockUntil of that lock as it was.
C25_AttemptsBounded ==
  /\ \A i \in ExistingIds : users[i].loginAttempts \in 0..LOCK_THRESHOLD
  /\ \A i \in ExistingIds :
       (LoginOn(i) /\ last.case = "wrongpw" /\ isLocked(last.pre, now))
         => users[i].lockUntil = last.pre.lockUntil

\* C29: isLocked and incLoginAttempts classify every (lockUntil, now) pair
\* alike: a wrong-password Login on an account whose lockUntil is set and
\* for which isLocked() is false finds the lock elapsed and clears both
\* loginAttempts and lockUntil instead of incrementing, also at the instant
\* now = lockUntil.
C29_BoundaryConsistent ==
  \A i \in ExistingIds :
    ( /\ LoginOn(i) /\ last.case = "wrongpw"
      /\ last.pre.lockUntil # NoDate /\ ~isLocked(last.pre, now) )
      => users[i].loginAttempts = 0 /\ users[i].lockUntil = NoDate

\* ------------------------------------------------ password reset
\* C30: a password reset is preceded by a reset request: resetPassword
\* changes the stored digest of an account only if a forgot-password
\* request for its email was accepted earlier and a reset mail for it was
\* sent; knowing the account's id alone does not change its password.
C30_ResetNeedsRequest ==
  [][\A i \in Ids :
       ( /\ last'.op = "resetPassword"
         /\ users[i] # NoUser /\ users'[i] # NoUser
         /\ users'[i].password # users[i].password )
         => i \in outbox]_vars

\* ------------------------------------------------ the middleware's outcome
\* C27: every invocation of authenticate ends in exactly one outcome: it
\* sends one error response or it calls next(); for no token, a correctly
\* signed and unexpired token without an id included, does it return
\* having done neither.
C27_AlwaysAnswers ==
  last.op \in Protected => (last.ran \/ last.resp # Unanswered)

\* ------------------------------------------------ movie routes
\* C22: an authenticated GET /api/movies/featured is handled by
\* getFeaturedMovies and an authenticated GET /api/movies/genres by
\* getGenres, each answering 200; neither is captured by the route
\* GET /api/movies/:id registered before them.
C22_FeaturedAndGenresRouted ==
  last.ran =>
    /\ last.path = <<"api", "movies", "featured">> =>
         (last.op = "getFeaturedMovies" /\ last.resp.status = 200)
    /\ last.path = <<"api", "movies", "genres">> =>
         (last.op = "getGenres" /\ last.resp.status = 200)

\* ------------------------------------------------ reviews and favorites
\* C23: deleting an account also deletes its related resources: after
\* deleteUserAccount succeeds for a user, no Review and no Favorite
\* references that user.
C23_DeleteCascades ==
  (last.op = "deleteUserAccount" /\ last.resp.status = 200) =>
    /\ \A r \in ReviewIds : reviews[r].user # last.reqUser
    /\ \A f \in favorites : f.user # last.reqUser

ChangesReview == {"updateReview", "deleteReview"}

C26_ReadThenWrite ==
  [][\A s \in Slots :
       ( /\ inflight[s].op = "loginUser" /\ inflight'[s] = NoRequest
         /\ last'.case = "wrongpw"
         /\ users[inflight[s].id] # NoUser )
         => LET doc == inflight[s].doc
                after == users'[inflight[s].id]
            IN /\ after.loginAttempts = doc.loginAttempts + 1
               /\ after.lockUntil # users[inflight[s].id].lockUntil
                    => doc.loginAttempts + 1 >= LOCK_THRESHOLD]_vars

C26_Witness ==
  \E i \in ExistingIds :
    /\ LoginOn(i) /\ last.case = "wrongpw"
    /\ streak[i] > LOCK_THRESHOLD
    /\ users[i].lockUntil = NoDate
    /\ users[i].loginAttempts < streak[i]
====
